---- MODULE Spec2Model ----
(***************************************************************************)
(* Verification model of connect-fors: the bitboard engine of src/game.rs  *)
(* (ConnectFourBoard, has_winner).                                         *)
(*                                                                         *)
(* A u64 bitboard is modelled as the set of the positions of its set bits  *)
(* (a subset of 0..63): AND is intersection, OR is union, XOR is the       *)
(* symmetric difference, x >> k moves every bit k positions down and drops *)
(* the bits that fall below position 0, 1 << k is the singleton {k}.       *)
(***************************************************************************)
EXTENDS Integers, Sequences, FiniteSets, TLC

----------------------------------------------------------------------------
(* Bounds of the exploration. *)

\* Number of free try_move / pop_move calls explored after a scripted opening.
MaxCalls == 4

\* Largest number of set bits of the bitboards handed to has_winner on its own.
MaxBits == 4

\* Largest depth argument given to ai::next_move.
MaxDepth == 3

\* Free moves made after a scripted opening before ai::next_move is called.
MaxAiMoves == 1

\* Free key presses made after a scripted session.
MaxKeys == 2

----------------------------------------------------------------------------
(* u64 bit operations on sets of bit positions. *)

BitAnd(a, b) == a \cap b

BitOr(a, b) == a \cup b

BitXor(a, b) == (a \ b) \cup (b \ a)

Shr(a, k) == {i - k : i \in {j \in a : j >= k}}

\* 1 << k for k < 64
OneShl(k) == {k}

----------------------------------------------------------------------------
(* Constants of src/game.rs. *)

TOP == <<6, 13, 20, 27, 34, 41, 48>>

TOP_BITBOARD == {6, 13, 20, 27, 34, 41, 48}

\* Column::all(), each column by its to_u8 value.
AllColumns == <<1, 2, 3, 4, 5, 6, 7>>

Columns == {AllColumns[i] : i \in 1..Len(AllColumns)}

to_index(column) == column - 1

\* The move count at which status() reports a draw.
FullBoardMoves == 42

\* Mutant: the parity read the wrong way round.
from_move_count_swapped(count) == IF count % 2 = 0 THEN "Two" ELSE "One"

from_move_count(count) == IF count % 2 = 0 THEN "One" ELSE "Two"

----------------------------------------------------------------------------
(* has_winner *)

\* Mutant: the vertical pairs are combined at distance 1 instead of 2, so that
\* three in a column already count.
has_winner_vertical_three(bitboard) ==
    LET horizontal == BitAnd(bitboard, Shr(bitboard, 7))
        vertical   == BitAnd(bitboard, Shr(bitboard, 1))
        diag_one   == BitAnd(bitboard, Shr(bitboard, 6))
        diag_two   == BitAnd(bitboard, Shr(bitboard, 8))
    IN  BitOr(BitOr(BitOr(BitAnd(diag_one, Shr(diag_one, 2 * 6)),
                          BitAnd(horizontal, Shr(horizontal, 2 * 7))),
                    BitAnd(diag_two, Shr(diag_two, 2 * 8))),
              BitAnd(vertical, Shr(vertical, 1))) # {}

has_winner(bitboard) ==
    LET horizontal == BitAnd(bitboard, Shr(bitboard, 7))
        vertical   == BitAnd(bitboard, Shr(bitboard, 1))
        diag_one   == BitAnd(bitboard, Shr(bitboard, 6))
        diag_two   == BitAnd(bitboard, Shr(bitboard, 8))
    IN  BitOr(BitOr(BitOr(BitAnd(diag_one, Shr(diag_one, 2 * 6)),
                          BitAnd(horizontal, Shr(horizontal, 2 * 7))),
                    BitAnd(diag_two, Shr(diag_two, 2 * 8))),
              BitAnd(vertical, Shr(vertical, 2))) # {}

----------------------------------------------------------------------------
(* ConnectFourBoard: a board is a record of the struct's five fields.      *)

DefaultBoard ==
    [player_one_bitboard |-> {},
     player_two_bitboard |-> {},
     move_count          |-> 0,
     heights             |-> <<0, 7, 14, 21, 28, 35, 42>>,
     history             |-> <<>>]

current_player(b) == from_move_count(b.move_count)

is_playable(b, column) ==
    LET idx == to_index(column)
    IN  b.heights[idx + 1] < TOP[idx + 1]

\* Mutant: the height is returned without taking it modulo 7.
column_height_absolute(b, column) ==
    LET idx == to_index(column)
    IN  b.heights[idx + 1]

column_height(b, column) ==
    LET idx == to_index(column)
    IN  b.heights[idx + 1] % 7

\* Mutant: the second win check reads Player One's bitboard again.
status_second_check_on_one(b) ==
    IF has_winner(b.player_one_bitboard) THEN "WinnerOne"
    ELSE IF has_winner(b.player_one_bitboard) THEN "WinnerTwo"
    ELSE IF b.move_count = FullBoardMoves THEN "Draw"
    ELSE "OnGoing"

\* Mutant: the move count is checked before the winners.
status_draw_first(b) ==
    IF b.move_count = FullBoardMoves THEN "Draw"
    ELSE IF has_winner(b.player_one_bitboard) THEN "WinnerOne"
    ELSE IF has_winner(b.player_two_bitboard) THEN "WinnerTwo"
    ELSE "OnGoing"

\* Mutant: the draw is expected one move too late.
status_draw_off_by_one(b) ==
    IF has_winner(b.player_one_bitboard) THEN "WinnerOne"
    ELSE IF has_winner(b.player_two_bitboard) THEN "WinnerTwo"
    ELSE IF b.move_count = FullBoardMoves + 1 THEN "Draw"
    ELSE "OnGoing"

status(b) ==
    IF has_winner(b.player_one_bitboard) THEN "WinnerOne"
    ELSE IF has_winner(b.player_two_bitboard) THEN "WinnerTwo"
    ELSE IF b.move_count = FullBoardMoves THEN "Draw"
    ELSE "OnGoing"

\* What try_move returns: the kind is Ok, FullColumn or ConcludedGame, and the
\* position is the u64 of Ok (0 for the errors, which carry no value).
Result(kind, position) == [kind |-> kind, position |-> position]

\* Mutant: the height of the column is not incremented.
try_move_keep_height(b, column) ==
    IF status(b) # "OnGoing"
    THEN [board |-> b, result |-> Result("ConcludedGame", {})]
    ELSE IF ~is_playable(b, column)
    THEN [board |-> b, result |-> Result("FullColumn", {})]
    ELSE LET idx == to_index(column)
             next_position == OneShl(b.heights[idx + 1])
             placed == IF current_player(b) = "One"
                       THEN [b EXCEPT !.player_one_bitboard =
                                          BitXor(@, next_position)]
                       ELSE [b EXCEPT !.player_two_bitboard =
                                          BitXor(@, next_position)]
         IN  [board  |-> [placed EXCEPT !.move_count = @ + 1,
                                        !.history = Append(@, column)],
              result |-> Result("Ok", next_position)]

\* Mutant: the full column is checked before the status.
try_move_full_column_first(b, column) ==
    IF ~is_playable(b, column)
    THEN [board |-> b, result |-> Result("FullColumn", {})]
    ELSE IF status(b) # "OnGoing"
    THEN [board |-> b, result |-> Result("ConcludedGame", {})]
    ELSE LET idx == to_index(column)
             next_position == OneShl(b.heights[idx + 1])
             placed == IF current_player(b) = "One"
                       THEN [b EXCEPT !.player_one_bitboard =
                                          BitXor(@, next_position)]
                       ELSE [b EXCEPT !.player_two_bitboard =
                                          BitXor(@, next_position)]
         IN  [board  |-> [placed EXCEPT !.move_count = @ + 1,
                                        !.heights[idx + 1] = @ + 1,
                                        !.history = Append(@, column)],
              result |-> Result("Ok", next_position)]

\* Mutant: the column is pushed onto the history before the checks.
try_move_push_first(b, column) ==
    LET pushed == [b EXCEPT !.history = Append(@, column)]
    IN  IF status(b) # "OnGoing"
        THEN [board |-> pushed, result |-> Result("ConcludedGame", {})]
        ELSE IF ~is_playable(b, column)
        THEN [board |-> pushed, result |-> Result("FullColumn", {})]
        ELSE LET idx == to_index(column)
                 next_position == OneShl(b.heights[idx + 1])
                 placed == IF current_player(b) = "One"
                           THEN [pushed EXCEPT !.player_one_bitboard =
                                                   BitXor(@, next_position)]
                           ELSE [pushed EXCEPT !.player_two_bitboard =
                                                   BitXor(@, next_position)]
             IN  [board  |-> [placed EXCEPT !.move_count = @ + 1,
                                            !.heights[idx + 1] = @ + 1],
                  result |-> Result("Ok", next_position)]

\* Mutant: a full column is not refused.
try_move_ignore_top(b, column) ==
    IF status(b) # "OnGoing"
    THEN [board |-> b, result |-> Result("ConcludedGame", {})]
    ELSE LET idx == to_index(column)
             next_position == OneShl(b.heights[idx + 1])
             placed == IF current_player(b) = "One"
                       THEN [b EXCEPT !.player_one_bitboard =
                                          BitXor(@, next_position)]
                       ELSE [b EXCEPT !.player_two_bitboard =
                                          BitXor(@, next_position)]
         IN  [board  |-> [placed EXCEPT !.move_count = @ + 1,
                                        !.heights[idx + 1] = @ + 1,
                                        !.history = Append(@, column)],
              result |-> Result("Ok", next_position)]

\* try_move: the board after the call and the value returned.
try_move(b, column) ==
    IF status(b) # "OnGoing"
    THEN [board |-> b, result |-> Result("ConcludedGame", {})]
    ELSE IF ~is_playable(b, column)
    THEN [board |-> b, result |-> Result("FullColumn", {})]
    ELSE LET idx == to_index(column)
             next_position == OneShl(b.heights[idx + 1])
             placed == IF current_player(b) = "One"
                       THEN [b EXCEPT !.player_one_bitboard =
                                          BitXor(@, next_position)]
                       ELSE [b EXCEPT !.player_two_bitboard =
                                          BitXor(@, next_position)]
         IN  [board  |-> [placed EXCEPT !.move_count = @ + 1,
                                        !.heights[idx + 1] = @ + 1,
                                        !.history = Append(@, column)],
              result |-> Result("Ok", next_position)]

\* Mutant: the bit is cleared for the player to move before the move counter
\* is decremented, that is, for the opponent of the player who made the move.
pop_move_clear_before_decrement(b) ==
    IF b.history = <<>>
    THEN b
    ELSE LET column == b.history[Len(b.history)]
             idx == to_index(column)
             popped == [b EXCEPT !.history = SubSeq(@, 1, Len(@) - 1),
                                 !.move_count = @ - 1,
                                 !.heights[idx + 1] = @ - 1]
             old_position == OneShl(popped.heights[idx + 1])
         IN  IF current_player(b) = "One"
             THEN [popped EXCEPT !.player_one_bitboard =
                                     BitXor(@, old_position)]
             ELSE [popped EXCEPT !.player_two_bitboard =
                                     BitXor(@, old_position)]

\* pop_move: the board after the call.  The decrements are u8 subtractions;
\* they act only when the history is not empty.
pop_move(b) ==
    IF b.history = <<>>
    THEN b
    ELSE LET column == b.history[Len(b.history)]
             idx == to_index(column)
             popped == [b EXCEPT !.history = SubSeq(@, 1, Len(@) - 1),
                                 !.move_count = @ - 1,
                                 !.heights[idx + 1] = @ - 1]
             old_position == OneShl(popped.heights[idx + 1])
         IN  IF current_player(popped) = "One"
             THEN [popped EXCEPT !.player_one_bitboard =
                                     BitXor(@, old_position)]
             ELSE [popped EXCEPT !.player_two_bitboard =
                                     BitXor(@, old_position)]

----------------------------------------------------------------------------
(* src/ai.rs: the evaluator and the search.                                *)

I32_MAX == 2147483647

I32_MIN == -2147483647 - 1

\* The value of the bits below position 31 of a bitboard.
RECURSIVE LowBitsValue(_)
LowBitsValue(bits) ==
    IF bits = {}
    THEN 0
    ELSE LET bit == CHOOSE x \in bits : TRUE
         IN  2 ^ bit + LowBitsValue(bits \ {bit})

\* Mutant: a saturating conversion, i32::MAX for every value above it.
AsI32_saturating(bits) ==
    IF \E bit \in bits : bit >= 31
    THEN 2147483647
    ELSE LowBitsValue(bits)

\* `x as i32` for a u64 x: its low 32 bits read as a two's complement number
\* (bit 31 weighs -2^31).
AsI32(bits) ==
    LET low == LowBitsValue({bit \in bits : bit < 31})
    IN  IF 31 \in bits
        THEN (low - 1073741824) - 1073741824
        ELSE low

evalulate_board(b) ==
    LET st == status(b)
    IN  IF st = "WinnerOne" THEN I32_MAX
        ELSE IF st = "WinnerTwo" THEN I32_MIN
        ELSE IF st = "Draw" THEN 0
        ELSE AsI32(BitOr(b.player_one_bitboard, b.player_two_bitboard))

\* Mutant: the columns try_move rejects are kept, with the board as it is.
possible_boards_keep_rejected(b) ==
    [i \in 1..Len(AllColumns) |->
        [column |-> AllColumns[i], board |-> try_move(b, AllColumns[i]).board]]

\* possible_boards: for each column of Column::all(), in order, a clone of the
\* board with the column played, when try_move accepts it.
possible_boards(b) ==
    LET upto[i \in 0..Len(AllColumns)] ==
            IF i = 0
            THEN <<>>
            ELSE LET next_board == try_move(b, AllColumns[i])
                 IN  IF next_board.result.kind = "Ok"
                     THEN Append(upto[i - 1],
                                 [column |-> AllColumns[i],
                                  board |-> next_board.board])
                     ELSE upto[i - 1]
    IN  upto[Len(AllColumns)]

\* Option<Column>::None
NoColumn == 0

\* best_column while it still holds the column drawn by choose(&mut rand::rng()):
\* the draw is read only if no column replaces it, and is made then (see
\* DrawnColumn).
SeedColumn == 8

\* What minimax returns: (Option<Column>, i32); panicked is true when the
\* unwrap() of the draw from an empty list aborts the call.
SearchResult(column, eval) ==
    [column |-> column, eval |-> eval, panicked |-> FALSE]

SearchPanic == [column |-> NoColumn, eval |-> 0, panicked |-> TRUE]

MaxOf(a, b) == IF a >= b THEN a ELSE b

MinOf(a, b) == IF a <= b THEN a ELSE b

RECURSIVE minimax(_, _, _, _, _)
RECURSIVE max_loop(_, _, _, _, _, _, _)
RECURSIVE min_loop(_, _, _, _, _, _, _)

\* Mutant: the operands of the cutoff test are exchanged.
max_loop_cutoff_reversed(boards, i, depth, alpha, beta, max_eval, best_column) ==
    IF i > Len(boards)
    THEN SearchResult(best_column, max_eval)
    ELSE LET child == minimax(boards[i].board, depth - 1, alpha, beta, FALSE)
             better == child.eval > max_eval
             new_best == IF better THEN boards[i].column ELSE best_column
             new_max == IF better THEN child.eval ELSE max_eval
             new_alpha == MaxOf(alpha, child.eval)
         IN  IF child.panicked THEN SearchPanic
             ELSE IF new_alpha <= beta THEN SearchResult(new_best, new_max)
             ELSE max_loop(boards, i + 1, depth, new_alpha, beta,
                           new_max, new_best)

\* The for loop of the maximizing branch, from the i-th possible board on.
max_loop(boards, i, depth, alpha, beta, max_eval, best_column) ==
    IF i > Len(boards)
    THEN SearchResult(best_column, max_eval)
    ELSE LET child == minimax(boards[i].board, depth - 1, alpha, beta, FALSE)
             better == child.eval > max_eval
             new_best == IF better THEN boards[i].column ELSE best_column
             new_max == IF better THEN child.eval ELSE max_eval
             new_alpha == MaxOf(alpha, child.eval)
         IN  IF child.panicked THEN SearchPanic
             ELSE IF beta <= new_alpha THEN SearchResult(new_best, new_max)
             ELSE max_loop(boards, i + 1, depth, new_alpha, beta,
                           new_max, new_best)

\* The for loop of the minimizing branch, from the i-th possible board on.
min_loop(boards, i, depth, alpha, beta, min_eval, best_column) ==
    IF i > Len(boards)
    THEN SearchResult(best_column, min_eval)
    ELSE LET child == minimax(boards[i].board, depth - 1, alpha, beta, TRUE)
             better == child.eval < min_eval
             new_best == IF better THEN boards[i].column ELSE best_column
             new_min == IF better THEN child.eval ELSE min_eval
             new_beta == MinOf(beta, child.eval)
         IN  IF child.panicked THEN SearchPanic
             ELSE IF new_beta <= alpha THEN SearchResult(new_best, new_min)
             ELSE min_loop(boards, i + 1, depth, alpha, new_beta,
                           new_min, new_best)

\* Mutant: the search stops one ply early.
minimax_leaf_at_depth_one(b, depth, alpha, beta, maximizing_player) ==
    IF depth <= 1 \/ status(b) # "OnGoing"
    THEN SearchResult(NoColumn, evalulate_board(b))
    ELSE LET boards == possible_boards(b)
         IN  IF boards = <<>> THEN SearchPanic
             ELSE IF maximizing_player
             THEN max_loop(boards, 1, depth, alpha, beta, I32_MIN, SeedColumn)
             ELSE min_loop(boards, 1, depth, alpha, beta, I32_MAX, SeedColumn)

minimax(b, depth, alpha, beta, maximizing_player) ==
    IF depth = 0 \/ status(b) # "OnGoing"
    THEN SearchResult(NoColumn, evalulate_board(b))
    ELSE LET boards == possible_boards(b)
         IN  IF boards = <<>> THEN SearchPanic
             ELSE IF maximizing_player
             THEN max_loop(boards, 1, depth, alpha, beta, I32_MIN, SeedColumn)
             ELSE min_loop(boards, 1, depth, alpha, beta, I32_MAX, SeedColumn)

\* Mutant: the search plays on the caller's board and does not take back the
\* move it settles on.
next_move_in_place(b, depth) ==
    IF status(b) = "OnGoing"
    THEN LET root == minimax(b, depth, I32_MIN, I32_MAX, FALSE)
         IN  [board |-> IF root.column \in Columns
                        THEN try_move(b, root.column).board
                        ELSE b,
              root |-> root]
    ELSE [board |-> b, root |-> SearchResult(NoColumn, 0)]

\* next_move: the caller's board after the call (it is borrowed immutably and
\* only clones are played on) and what minimax returned at the root, of which
\* next_move returns the column; on a concluded board the column is None.
next_move(b, depth) ==
    IF status(b) = "OnGoing"
    THEN [board |-> b, root |-> minimax(b, depth, I32_MIN, I32_MAX, FALSE)]
    ELSE [board |-> b, root |-> SearchResult(NoColumn, 0)]

\* The column a returned best_column stands for: itself, or, when it still is
\* the random draw, the pick-th of the possible columns (pick counted round).
DrawnColumn(column, b, pick) ==
    IF column = SeedColumn
    THEN LET boards == possible_boards(b)
         IN  boards[((pick - 1) % Len(boards)) + 1].column
    ELSE column

----------------------------------------------------------------------------
(* src/app.rs: the key handlers. A handler maps the App (its board and its *)
(* other fields) and a key to the set of Apps it can leave behind, one for *)
(* each draw the search can make.                                          *)

\* The depth of the search in single-player mode. The app passes 10
\* (app.rs:104); the model searches AiDepth plies.
AiDepth == 2

\* The keys told apart by the handlers; "Esc" stands for every other key.
Keys == {"1", "2", "3", "4", "5", "6", "7", "q", "Left", "Right", "Enter",
         "Esc"}

\* Key::Char('1') .. Key::Char('7') as the column of CursorMovement::Exact.
DigitColumn(key) ==
    CASE key = "1" -> 1 [] key = "2" -> 2 [] key = "3" -> 3 [] key = "4" -> 4
      [] key = "5" -> 5 [] key = "6" -> 6 [] key = "7" -> 7

\* Column::try_from(u8): NoColumn stands for Err.
try_from(value) == IF value \in 1..7 THEN value ELSE NoColumn

update_cursor(a, b, movement, column) ==
    IF movement = "Left" /\ a.board_cursor # NoColumn
    THEN LET left == try_from(a.board_cursor - 1)
         IN  IF left # NoColumn THEN [a EXCEPT !.board_cursor = left] ELSE a
    ELSE IF movement = "Right" /\ a.board_cursor # NoColumn
    THEN LET right == try_from(a.board_cursor + 1)
         IN  IF right # NoColumn /\ is_playable(b, right)
             THEN [a EXCEPT !.board_cursor = right]
             ELSE a
    ELSE IF movement = "Exact"
    THEN IF is_playable(b, column) THEN [a EXCEPT !.board_cursor = column]
         ELSE a
    ELSE a

\* An App: its board and its other fields.
AppState(a, b) == [app |-> a, board |-> b]

\* Mutant: a game is entered with the board as the last game left it.
handle_home_key_press_keeps_board(a, b, key) ==
    IF key = "1"
    THEN { AppState([a EXCEPT !.board_cursor = 4,
                              !.current_page = "SinglePlayer"], b) }
    ELSE IF key = "2"
    THEN { AppState([a EXCEPT !.board_cursor = 4,
                              !.current_page = "MultiPlayer"], b) }
    ELSE IF key = "q"
    THEN { AppState([a EXCEPT !.running = FALSE], b) }
    ELSE { AppState(a, b) }

handle_home_key_press(a, b, key) ==
    IF key = "1"
    THEN { AppState([a EXCEPT !.board_cursor = 4,
                              !.current_page = "SinglePlayer"],
                    DefaultBoard) }
    ELSE IF key = "2"
    THEN { AppState([a EXCEPT !.board_cursor = 4,
                              !.current_page = "MultiPlayer"],
                    DefaultBoard) }
    ELSE IF key = "q"
    THEN { AppState([a EXCEPT !.running = FALSE], b) }
    ELSE { AppState(a, b) }

\* The closure handle_singleplayer_key_press passes as on_turn.
singleplayer_turn(a, b, cursor) ==
    LET human == try_move(b, cursor)
    IN  IF human.result.kind = "Ok"
        THEN LET found == next_move(human.board, AiDepth)
             IN  { IF DrawnColumn(found.root.column, human.board, pick)
                         # NoColumn
                   THEN AppState(a, try_move(found.board,
                            DrawnColumn(found.root.column, human.board,
                                        pick)).board)
                   ELSE AppState([a EXCEPT !.panicked = TRUE], found.board) :
                   pick \in 1..7 }
        ELSE { AppState(a, human.board) }

\* The closure handle_multiplayer_key_press passes as on_turn.
multiplayer_turn(a, b, cursor) == { AppState(a, try_move(b, cursor).board) }

handle_game_key_press(a, b, key, single) ==
    IF key = "q"
    THEN { AppState([a EXCEPT !.current_page = "Home"], b) }
    ELSE IF key \in {"Left", "Right"}
    THEN { AppState(update_cursor(a, b, key, NoColumn), b) }
    ELSE IF key \in {"1", "2", "3", "4", "5", "6", "7"}
    THEN { AppState(update_cursor(a, b, "Exact", DigitColumn(key)), b) }
    ELSE IF key = "Enter" /\ status(b) = "OnGoing"
    THEN IF a.board_cursor = NoColumn
         THEN { AppState([a EXCEPT !.panicked = TRUE], b) }
         ELSE IF single
         THEN singleplayer_turn(a, b, a.board_cursor)
         ELSE multiplayer_turn(a, b, a.board_cursor)
    ELSE { AppState(a, b) }

handle_singleplayer_key_press(a, b, key) ==
    handle_game_key_press(a, b, key, TRUE)

handle_multiplayer_key_press(a, b, key) ==
    handle_game_key_press(a, b, key, FALSE)

handle_key_press(a, b, key) ==
    IF a.current_page = "Home" THEN handle_home_key_press(a, b, key)
    ELSE IF a.current_page = "SinglePlayer"
    THEN handle_singleplayer_key_press(a, b, key)
    ELSE handle_multiplayer_key_press(a, b, key)

----------------------------------------------------------------------------
(* Scripted openings: sequences of columns played with try_move from the   *)
(* default board before the free exploration starts.  They bring the board *)
(* to positions the free calls could not reach within MaxCalls: one move   *)
(* before a win in each direction for each player, a full column, and two  *)
(* cells before the end of a game that fills the board.                    *)

\* A game that fills the board with no four-in-a-row (less its last 2 moves).
DrawOpening ==
    <<6, 5, 6, 1, 7, 3, 5, 6, 6, 1, 5, 2, 2, 1, 5, 6, 7, 6, 4, 2,
      2, 3, 3, 7, 3, 7, 7, 4, 7, 3, 1, 4, 1, 4, 4, 5, 4, 2, 5, 3>>

\* A game whose 42nd move completes a four-in-a-row (less its last 2 moves).
LastCellWinOpening ==
    <<5, 7, 1, 3, 7, 6, 2, 3, 6, 3, 4, 5, 2, 2, 5, 1, 4, 6, 6, 7,
      3, 5, 4, 1, 2, 4, 2, 6, 1, 2, 4, 1, 3, 7, 3, 5, 4, 1, 5, 7>>

Scripts ==
    { <<>>,
      DrawOpening,
      LastCellWinOpening,
      <<4, 4, 4, 4, 4, 4>>,                      \* column Four full
      <<1, 2, 1, 2, 1, 2>>,                      \* One: vertical, then 1
      <<1, 2, 4, 2, 5, 2, 3>>,                   \* Two: vertical, then 2
      <<4, 5, 3, 3, 2, 6>>,                      \* One: horizontal, then 1
      <<7, 4, 7, 5, 1, 3, 5>>,                   \* Two: horizontal, then 2
      <<2, 4, 3, 7, 5, 2, 4, 2, 2, 3>>,          \* One: diagonal (>> 6), then 3
      <<4, 3, 3, 4, 3, 3, 5, 4, 4, 5, 5>>,       \* Two: diagonal (>> 6), then 6
      <<2, 4, 2, 3, 1, 4, 4, 3, 3, 5>>,          \* One: diagonal (>> 8), then 4
      <<4, 1, 2, 4, 4, 4, 3, 2, 3>> }            \* Two: diagonal (>> 8), then 3

----------------------------------------------------------------------------
(* State. *)

VARIABLES
    board,      \* the ConnectFourBoard the caller owns (App.board)
    last,       \* the last call made on it: operation, argument, result,
                \* and the board as it was before the call
    prior,      \* the call before the last, recorded the same way
    script,     \* columns of the scripted opening still to be played
    calls,      \* number of free calls made so far
    bitboard,   \* the argument of the last stand-alone has_winner call
    winner,     \* what that call returned
    slots,      \* the BoardSlots iterator borrowed from the board, if any
    search,     \* the last ai::next_move call: its arguments and what it
                \* returned
    app,        \* the App's other fields, and whether the process panicked
    keys        \* key presses of the scripted session still to be made

vars == <<board, last, prior, script, calls, bitboard, winner, slots,
          search, app, keys>>

\* No BoardSlots iterator exists.
NoSlots == [live |-> FALSE, cursor |-> 0, item |-> "NotCalled", yielded |-> 0,
            nones |-> 0]

NoCall == [op |-> "none", column |-> 0, result |-> Result("none", {}),
           before |-> DefaultBoard]

\* ai::next_move has not been called.
NoSearch == [op |-> "none", depth |-> 0, root |-> SearchResult(NoColumn, 0),
             column |-> NoColumn, before |-> DefaultBoard]

\* App::new(), the board apart: board_cursor None is NoColumn.
AppNew == [running |-> TRUE, current_page |-> "Home",
           board_cursor |-> NoColumn, panicked |-> FALSE]

Init ==
    /\ board = DefaultBoard
    /\ last = NoCall
    /\ prior = NoCall
    /\ script \in Scripts
    /\ calls = 0
    /\ bitboard = {}
    /\ winner = has_winner({})
    /\ slots = NoSlots
    /\ search = NoSearch
    /\ app = AppNew
    /\ keys = <<>>

\* board.try_move(column)
DoTryMove(column) ==
    LET r == try_move(board, column)
    IN  /\ board' = r.board
        /\ last' = [op |-> "try_move", column |-> column, result |-> r.result,
                    before |-> board]
        /\ prior' = last

\* board.pop_move()
DoPopMove ==
    /\ board' = pop_move(board)
    /\ last' = [op |-> "pop_move", column |-> 0,
                result |-> Result("none", {}), before |-> board]
    /\ prior' = last

\* The next move of the scripted opening.
ScriptedTryMove ==
    /\ script # <<>>
    /\ DoTryMove(Head(script))
    /\ script' = Tail(script)
    /\ UNCHANGED <<calls, bitboard, winner, slots, search, app, keys>>

\* A free try_move call, on any column.
TryMoveCall(column) ==
    /\ script = <<>>
    /\ calls < MaxCalls
    /\ DoTryMove(column)
    /\ calls' = calls + 1
    /\ UNCHANGED <<script, bitboard, winner, slots, search, app, keys>>

\* A free pop_move call.
PopMoveCall ==
    /\ script = <<>>
    /\ calls < MaxCalls
    /\ DoPopMove
    /\ calls' = calls + 1
    /\ UNCHANGED <<script, bitboard, winner, slots, search, app, keys>>

Next ==
    \/ ScriptedTryMove
    \/ \E column \in Columns : TryMoveCall(column)
    \/ PopMoveCall

Spec == Init /\ [][Next]_vars

----------------------------------------------------------------------------
(* has_winner on its own: the bitboards with at most MaxBits bits set, all *)
(* of them playable cells (no bit of TOP_BITBOARD, none above bit 48).     *)

PlayableBits == (0..48) \ TOP_BITBOARD

InitHasWinner ==
    /\ board = DefaultBoard
    /\ last = NoCall
    /\ prior = NoCall
    /\ script = <<>>
    /\ calls = 0
    /\ bitboard = {}
    /\ winner = has_winner({})
    /\ slots = NoSlots
    /\ search = NoSearch
    /\ app = AppNew
    /\ keys = <<>>

\* has_winner(bitboard | 1 << bit); the bits are added in increasing order,
\* so that every bitboard is built in exactly one way.
HasWinnerCall(bit) ==
    /\ Cardinality(bitboard) < MaxBits
    /\ \A b \in bitboard : b < bit
    /\ bitboard' = BitOr(bitboard, OneShl(bit))
    /\ winner' = has_winner(bitboard')
    /\ UNCHANGED <<board, last, prior, script, calls, slots, search, app, keys>>

NextHasWinner == \E bit \in PlayableBits : HasWinnerCall(bit)

SpecHasWinner == InitHasWinner /\ [][NextHasWinner]_vars

----------------------------------------------------------------------------
(* slots(): the BoardSlots iterator.  It borrows the board, so no move is   *)
(* made while it lives.  The slots record holds its cursor, the item its    *)
(* last next() returned, the number of Some items returned so far and the   *)
(* number of None answers (counted up to 2).                                *)

\* Mutant: the cursor does not step over the top bit of a column.
BoardSlots_next_no_skip(cursor, b) ==
    IF cursor >= 48
    THEN [cursor |-> cursor, item |-> "None"]
    ELSE [cursor |-> cursor + 1,
          item |-> IF BitAnd(b.player_one_bitboard, OneShl(cursor)) # {}
                   THEN "OccupiedOne"
                   ELSE IF BitAnd(b.player_two_bitboard, OneShl(cursor)) # {}
                   THEN "OccupiedTwo"
                   ELSE "Vacant"]

\* BoardSlots::next: the cursor after the call and the item returned.
BoardSlots_next(cursor, b) ==
    LET skipped == IF BitAnd(OneShl(cursor), TOP_BITBOARD) # {}
                   THEN cursor + 1
                   ELSE cursor
    IN  IF skipped >= 48
        THEN [cursor |-> skipped, item |-> "None"]
        ELSE [cursor |-> skipped + 1,
              item |-> IF BitAnd(b.player_one_bitboard, OneShl(skipped)) # {}
                       THEN "OccupiedOne"
                       ELSE IF BitAnd(b.player_two_bitboard, OneShl(skipped)) # {}
                       THEN "OccupiedTwo"
                       ELSE "Vacant"]

\* The cell the renderer draws item idx in: (row, col) = (idx % 6, idx / 6).
RendererCell(idx) == [row |-> idx % 6, col |-> idx \div 6]

\* A scripted move, made while no iterator borrows the board.
SlotsScriptedTryMove ==
    /\ ~slots.live
    /\ ScriptedTryMove

\* board.slots(): BoardSlots::new
SlotsCall ==
    /\ ~slots.live
    /\ slots' = [live |-> TRUE, cursor |-> 0, item |-> "NotCalled",
                 yielded |-> 0, nones |-> 0]
    /\ UNCHANGED <<board, last, prior, script, calls, bitboard, winner, search, app, keys>>

\* One call of next() on the iterator.
SlotsNextCall ==
    /\ slots.live
    /\ LET r == BoardSlots_next(slots.cursor, board)
       IN  slots' = [live |-> TRUE, cursor |-> r.cursor, item |-> r.item,
                     yielded |-> IF r.item = "None" THEN slots.yielded
                                 ELSE slots.yielded + 1,
                     nones |-> IF r.item # "None" THEN slots.nones
                               ELSE IF slots.nones < 2 THEN slots.nones + 1
                               ELSE slots.nones]
    /\ UNCHANGED <<board, last, prior, script, calls, bitboard, winner, search, app, keys>>

\* The iterator is dropped and the borrow ends.
SlotsDrop ==
    /\ slots.live
    /\ slots' = NoSlots
    /\ UNCHANGED <<board, last, prior, script, calls, bitboard, winner, search, app, keys>>

NextSlots ==
    \/ SlotsScriptedTryMove
    \/ SlotsCall
    \/ SlotsNextCall
    \/ SlotsDrop

SpecSlots == Init /\ [][NextSlots]_vars

----------------------------------------------------------------------------
(* ai::next_move called on a board of a game in progress or concluded: a   *)
(* scripted opening, then up to MaxAiMoves free moves, then the call, with *)
(* any random draw and any depth up to MaxDepth less two for each free     *)
(* move made (the deepest searches start from the scripted boards).        *)

\* Openings for the search: Player Two has the bottom cells of columns 3, 4
\* and 6 and column 5 is empty; Player One threatens both ends of a row of
\* three; a position whose occupancy has bit 31 set.
AiOpenings ==
    { <<7, 6, 6, 4, 4, 3, 7>>,
      <<3, 3, 4, 4, 5>>,
      <<4, 5, 4, 4, 4, 5, 4, 1, 4>> }

AiScripts == Scripts \cup AiOpenings

\* The draws choose(&mut rand::rng()) can make, counted round the list.
Picks == 1..7

InitAi ==
    /\ board = DefaultBoard
    /\ last = NoCall
    /\ prior = NoCall
    /\ script \in AiScripts
    /\ calls = 0
    /\ bitboard = {}
    /\ winner = has_winner({})
    /\ slots = NoSlots
    /\ search = NoSearch
    /\ app = AppNew
    /\ keys = <<>>

AiScriptedTryMove ==
    /\ search.op = "none"
    /\ ScriptedTryMove

AiTryMoveCall(column) ==
    /\ search.op = "none"
    /\ script = <<>>
    /\ calls < MaxAiMoves
    /\ DoTryMove(column)
    /\ calls' = calls + 1
    /\ UNCHANGED <<script, bitboard, winner, slots, search, app, keys>>

\* ai::next_move(&board, depth)
NextMoveCall(depth) ==
    /\ search.op = "none"
    /\ script = <<>>
    /\ depth + 2 * calls <= MaxDepth
    /\ LET r == next_move(board, depth)
       IN  \E pick \in Picks :
               /\ board' = r.board
               /\ search' = [op |-> "next_move", depth |-> depth,
                             root |-> r.root,
                             column |-> DrawnColumn(r.root.column, board, pick),
                             before |-> board]
    /\ UNCHANGED <<last, prior, script, calls, bitboard, winner, slots, app,
                   keys>>

NextAi ==
    \/ AiScriptedTryMove
    \/ \E column \in Columns : AiTryMoveCall(column)
    \/ \E depth \in 0..MaxDepth : NextMoveCall(depth)

SpecAi == InitAi /\ [][NextAi]_vars

----------------------------------------------------------------------------
(* The App from App::new() on: the key presses of a scripted session, then *)
(* up to MaxKeys free key presses. Each step is one turn of the loop of    *)
(* App::run that reads a key; the loop ends when running is false, and the *)
(* process with it when a handler panics.                                  *)

\* Sessions: none; a single-player game in which the human builds a row of
\* three open at both ends and completes it; a two-player game with cursor
\* moves; a single-player game left for the home page; single-player games
\* in which the human plays one column only, Six until it is full and beyond,
\* One until the search has four in column Six and beyond.
AppSessions ==
    { <<>>,
      <<"1", "2", "Enter", "3", "Enter", "4", "Enter", "5", "Enter">>,
      <<"2", "Enter", "Right", "Enter", "Left", "Left", "Enter", "7">>,
      <<"1", "Enter", "Left", "Enter", "q">>,
      <<"1", "6", "Enter", "Enter", "Enter", "Enter">>,
      <<"1", "1", "Enter", "Enter", "Enter", "Enter", "Enter", "Enter">> }

InitApp ==
    /\ board = DefaultBoard
    /\ last = NoCall
    /\ prior = NoCall
    /\ script = <<>>
    /\ calls = 0
    /\ bitboard = {}
    /\ winner = has_winner({})
    /\ slots = NoSlots
    /\ search = NoSearch
    /\ app = AppNew
    /\ keys \in AppSessions

\* self.handle_key_press(key), in a process that is still looping.
DoKeyPress(key) ==
    /\ app.running
    /\ ~app.panicked
    /\ \E next \in handle_key_press(app, board, key) :
           /\ app' = next.app
           /\ board' = next.board
    /\ last' = [op |-> key, column |-> app.board_cursor,
                result |-> Result("none", {}), before |-> board]
    /\ prior' = last

\* The next key of the scripted session.
ScriptedKeyPress ==
    /\ keys # <<>>
    /\ DoKeyPress(Head(keys))
    /\ keys' = Tail(keys)
    /\ UNCHANGED <<script, calls, bitboard, winner, slots, search>>

\* A free key press.
FreeKeyPress(key) ==
    /\ keys = <<>>
    /\ calls < MaxKeys
    /\ DoKeyPress(key)
    /\ calls' = calls + 1
    /\ UNCHANGED <<script, keys, bitboard, winner, slots, search>>

NextApp ==
    \/ ScriptedKeyPress
    \/ \E key \in Keys : FreeKeyPress(key)

SpecApp == InitApp /\ [][NextApp]_vars

----------------------------------------------------------------------------
(* The grid, stated without the bit tricks: cell (col, row) of the 6 x 7   *)
(* board, col 0..6 from the left and row 0..5 from the bottom, and the     *)
(* sets of four cells that are consecutive in one line.                    *)

CellBit(col, row) == 7 * col + row

Directions == {<<1, 0>>, <<0, 1>>, <<1, 1>>, <<1, -1>>}

InGrid(col, row) == col \in 0..6 /\ row \in 0..5

FourLines ==
    {{CellBit(s[1] + i * d[1], s[2] + i * d[2]) : i \in 0..3} :
        <<s, d>> \in {sd \in ((0..6) \X (0..5)) \X Directions :
                        InGrid(sd[1][1] + 3 * sd[2][1], sd[1][2] + 3 * sd[2][2])}}

HasFourInLine(bits) == \E line \in FourLines : line \subseteq bits

\* The bits of the six playable cells of a column (1..7).
ColumnCells(column) == {CellBit(column - 1, row) : row \in 0..5}

\* Number of pieces, of either player, in a column of a board.
PiecesIn(b, column) ==
    Cardinality((b.player_one_bitboard \cup b.player_two_bitboard)
                    \cap ColumnCells(column))

TryMoveOk == last.op = "try_move" /\ last.result.kind = "Ok"

----------------------------------------------------------------------------
(* Claims. *)

\* C1: a successful try_move followed at once by pop_move restores both
\* bitboards, the heights, the move counter, the history and the derived
\* status: in every reachable board for every column on which try_move
\* succeeds, and in every state reached by a pop_move call made right after a
\* successful try_move call.
C1_TryThenPopRestores ==
    /\ \A column \in Columns :
          LET r == try_move(board, column)
          IN  r.result.kind = "Ok" =>
                 /\ pop_move(r.board) = board
                 /\ status(pop_move(r.board)) = status(board)
    /\ (last.op = "pop_move" /\ prior.op = "try_move"
            /\ prior.result.kind = "Ok") =>
          /\ board = prior.before
          /\ status(board) = status(prior.before)

\* A pop_move call has just undone a move that was the 42nd and a winning one.
C1_Witness ==
    /\ last.op = "pop_move"
    /\ prior.op = "try_move"
    /\ prior.result.kind = "Ok"
    /\ status(last.before) \in {"WinnerOne", "WinnerTwo"}
    /\ last.before.move_count = 42
    /\ board.move_count = 41

\* C3: the two bitboards never share a set bit.
C3_BitboardsDisjoint ==
    BitAnd(board.player_one_bitboard, board.player_two_bitboard) = {}

\* Both players own cells, after moves and an undo.
C3_Witness ==
    /\ board.player_one_bitboard # {}
    /\ board.player_two_bitboard # {}
    /\ last.op = "try_move"
    /\ prior.op = "pop_move"
    /\ last.column = prior.before.history[Len(prior.before.history)]

\* C4: try_move returns ConcludedGame exactly when the status before the call
\* is not OnGoing (also when the column is full), FullColumn exactly when the
\* status is OnGoing and the column holds six pieces, and Ok otherwise.
C4_TryMoveResult ==
    last.op = "try_move" =>
        LET ongoing == status(last.before) = "OnGoing"
            full == PiecesIn(last.before, last.column) = 6
        IN  /\ last.result.kind = "ConcludedGame" <=> ~ongoing
            /\ last.result.kind = "FullColumn" <=> (ongoing /\ full)
            /\ last.result.kind = "Ok" <=> (ongoing /\ ~full)

\* The seventh move into column Four of an ongoing game returned FullColumn.
C4_Witness ==
    /\ last.op = "try_move"
    /\ last.column = 4
    /\ last.before.history = <<4, 4, 4, 4, 4, 4>>
    /\ last.result.kind = "FullColumn"

\* C5: a try_move that returns FullColumn or ConcludedGame leaves the
\* bitboards, the heights, the move counter and the history as they were.
C5_FailedTryMoveChangesNothing ==
    (last.op = "try_move" /\ last.result.kind \in {"FullColumn", "ConcludedGame"})
        => /\ board.player_one_bitboard = last.before.player_one_bitboard
           /\ board.player_two_bitboard = last.before.player_two_bitboard
           /\ board.heights = last.before.heights
           /\ board.move_count = last.before.move_count
           /\ board.history = last.before.history

\* A try_move on a full column of a concluded game was rejected.
C5_Witness ==
    /\ last.op = "try_move"
    /\ last.result.kind = "ConcludedGame"
    /\ PiecesIn(last.before, last.column) = 6
    /\ board.history # <<>>

\* C2: for a bitboard of playable cells only, has_winner is true exactly when
\* four cells consecutive in one line of the grid (horizontal, vertical or
\* either diagonal) are all set: a run of three, or bits adjacent only across
\* a column boundary, give false.
C2_HasWinnerIffFourInLine ==
    bitboard \subseteq PlayableBits => (winner <=> HasFourInLine(bitboard))

\* has_winner has answered true for four cells of a diagonal.
C2_Witness == bitboard = {3, 9, 15, 21} /\ winner

\* has_winner has answered false for four bits that are consecutive only
\* across the boundary of the first two columns.
C2_WitnessAcrossColumns == bitboard = {4, 5, 7, 8} /\ ~winner

\* The player who made the last successful try_move, and the other one.
Mover == current_player(last.before)

BitboardOf(b, player) ==
    IF player = "One" THEN b.player_one_bitboard ELSE b.player_two_bitboard

WinnerStatus(player) == IF player = "One" THEN "WinnerOne" ELSE "WinnerTwo"

\* C6: when a successful try_move by a player completes four aligned pieces
\* of that player, status() right after it is Winner of that player.
C6_WinningMoveReportsWinner ==
    (TryMoveOk /\ HasFourInLine(BitboardOf(board, Mover)))
        => status(board) = WinnerStatus(Mover)

\* Player Two has just completed a diagonal.
C6_Witness ==
    /\ TryMoveOk
    /\ Mover = "Two"
    /\ \E line \in FourLines :
          /\ line \subseteq board.player_two_bitboard
          /\ \E b \in line : b + 8 \in line \/ b + 6 \in line
          /\ last.result.position \subseteq line
    /\ status(board) = "WinnerTwo"

\* C7: when the move that fills the last free cell also completes a
\* four-in-a-row, status() is Winner of the mover, not Draw.
C7_WinOnLastCellIsNotDraw ==
    (TryMoveOk /\ board.move_count = 42
               /\ HasFourInLine(BitboardOf(board, Mover)))
        => (status(board) = WinnerStatus(Mover) /\ status(board) # "Draw")

\* The 42nd move has just completed a four-in-a-row.
C7_Witness ==
    /\ TryMoveOk
    /\ board.move_count = 42
    /\ Len(board.history) = 42
    /\ \A column \in Columns : PiecesIn(board, column) = 6
    /\ HasFourInLine(BitboardOf(board, Mover))
    /\ ~HasFourInLine(BitboardOf(last.before, Mover))

\* C8: after 42 successful try_move calls from the empty board with no
\* four-in-a-row formed, status() is Draw; and status() is Draw only when the
\* move count is 42 and neither player has a four-in-a-row.
C8_DrawIffFullBoardWithoutFour ==
    LET nofour == /\ ~HasFourInLine(board.player_one_bitboard)
                  /\ ~HasFourInLine(board.player_two_bitboard)
    IN  /\ (Len(board.history) = 42 /\ nofour) => status(board) = "Draw"
        /\ status(board) = "Draw" => (board.move_count = 42 /\ nofour)

\* The 42nd move of a game has just been made and no player has four in line.
C8_Witness ==
    /\ TryMoveOk
    /\ Len(board.history) = 42
    /\ ~HasFourInLine(board.player_one_bitboard)
    /\ ~HasFourInLine(board.player_two_bitboard)
    /\ status(board) = "Draw"

\* C9: current_player() is One when the move count is even and Two when it
\* is odd; a successful try_move adds its piece to the bitboard of the player
\* current_player() named before the call and leaves the other bitboard
\* alone; Player One always has as many pieces as Player Two, or one more.
C9_TurnsAlternate ==
    /\ current_player(board) = "One" <=> board.move_count % 2 = 0
    /\ current_player(board) = "Two" <=> board.move_count % 2 = 1
    /\ TryMoveOk =>
          LET other == IF Mover = "One" THEN "Two" ELSE "One"
          IN  /\ Mover = (IF last.before.move_count % 2 = 0 THEN "One" ELSE "Two")
              /\ Cardinality(last.result.position) = 1
              /\ last.result.position \cap BitboardOf(last.before, Mover) = {}
              /\ BitboardOf(board, Mover) =
                    BitboardOf(last.before, Mover) \cup last.result.position
              /\ BitboardOf(board, other) = BitboardOf(last.before, other)
              /\ current_player(board) = other
    /\ Cardinality(board.player_one_bitboard)
          - Cardinality(board.player_two_bitboard) \in {0, 1}

\* Player Two has just moved, right after a move of Player One.
C9_Witness ==
    /\ TryMoveOk
    /\ prior.op = "try_move"
    /\ prior.result.kind = "Ok"
    /\ prior.result.position \subseteq board.player_one_bitboard
    /\ last.result.position \subseteq board.player_two_bitboard
    /\ current_player(board) = "One"

\* C10: for every column, column_height is the number of pieces in the
\* column, lies in 0..6, and is_playable is true exactly when it is below 6.
C10_HeightCountsPieces ==
    \A column \in Columns :
        /\ column_height(board, column) = PiecesIn(board, column)
        /\ column_height(board, column) \in 0..6
        /\ is_playable(board, column) <=> PiecesIn(board, column) < 6

\* One column is full and not playable, another is empty, a third in between.
C10_Witness ==
    /\ \E column \in Columns :
          column_height(board, column) = 6 /\ ~is_playable(board, column)
    /\ \E column \in Columns :
          column_height(board, column) = 0 /\ is_playable(board, column)
    /\ \E column \in Columns :
          column_height(board, column) \in 1..5 /\ is_playable(board, column)

\* The board obtained by playing the columns of a history, in order, with
\* try_move from the default board.
RECURSIVE ReplayFrom(_, _)
ReplayFrom(b, columns) ==
    IF columns = <<>>
    THEN b
    ELSE LET played == try_move(b, Head(columns)).board
         IN  IF played.move_count >= 0
             THEN ReplayFrom(played, Tail(columns))
             ELSE played

Replay(columns) == ReplayFrom(DefaultBoard, columns)

\* C11: the history has exactly move_count entries, at most 42, and replaying
\* it with try_move from the empty board reproduces the bitboards and heights.
C11_HistoryReplays ==
    /\ Len(board.history) = board.move_count
    /\ Len(board.history) <= 42
    /\ LET replayed == Replay(board.history)
       IN  /\ replayed.player_one_bitboard = board.player_one_bitboard
           /\ replayed.player_two_bitboard = board.player_two_bitboard
           /\ replayed.heights = board.heights

\* A move has been undone and another column played instead, on a board that
\* holds pieces of both players.
C11_Witness ==
    /\ TryMoveOk
    /\ prior.op = "pop_move"
    /\ prior.before.history # <<>>
    /\ last.column # prior.before.history[Len(prior.before.history)]
    /\ Len(board.history) >= 7

\* C20: a successful try_move(column) returns the u64 with exactly one bit
\* set, at position 7 * (column - 1) + h, where h is the number of pieces in
\* the column before the move; that bit is new in the mover's bitboard.
C20_TryMoveReturnsNewBit ==
    TryMoveOk =>
        LET h == PiecesIn(last.before, last.column)
            bit == 7 * (last.column - 1) + h
        IN  /\ last.result.position = {bit}
            /\ bit \notin BitboardOf(last.before, Mover)
            /\ bit \in BitboardOf(board, Mover)
            /\ BitboardOf(board, Mover) \ BitboardOf(last.before, Mover) = {bit}

\* The fourth piece of column Three has just been placed: bit 17 is returned.
C20_Witness ==
    /\ TryMoveOk
    /\ last.column = 3
    /\ PiecesIn(last.before, 3) = 3
    /\ last.result.position = {17}

\* What the cell of a bit holds on a board.
Occupant(b, bit) ==
    IF bit \in b.player_one_bitboard THEN "OccupiedOne"
    ELSE IF bit \in b.player_two_bitboard THEN "OccupiedTwo"
    ELSE "Vacant"

\* C19: slots() yields exactly 42 items and then None for ever; item i is
\* the cell of column i / 6 at row i % 6 from the bottom, the cell the
\* renderer draws it in: Occupied by the player whose bitboard has the bit of
\* that cell, Vacant when neither has.
C19_SlotsOrder ==
    slots.live =>
        /\ slots.yielded <= 42
        /\ slots.item # "NotCalled" =>
              (slots.item = "None" <=> slots.nones > 0)
        /\ slots.nones > 0 => slots.yielded = 42
        /\ slots.yielded = 42 =>
              BoardSlots_next(slots.cursor, board).item = "None"
        /\ slots.yielded < 42 =>
              BoardSlots_next(slots.cursor, board).item # "None"
        /\ (slots.item # "NotCalled" /\ slots.nones = 0) =>
              LET cell == RendererCell(slots.yielded - 1)
              IN  /\ cell.col \in 0..6
                  /\ cell.row \in 0..5
                  /\ slots.item = Occupant(board, CellBit(cell.col, cell.row))

\* The iterator of a board with pieces of both players has returned 42 items
\* and then None twice.
C19_Witness ==
    /\ slots.live
    /\ slots.yielded = 42
    /\ slots.nones = 2
    /\ slots.item = "None"
    /\ Len(board.history) >= 10

\* The iterator has just returned the top cell of column Two, occupied by
\* Player Two, as item 11.
C19_WitnessItem ==
    /\ slots.live
    /\ slots.yielded = 12
    /\ slots.item = "OccupiedTwo"
    /\ 12 \in board.player_two_bitboard

----------------------------------------------------------------------------
(* The search (src/ai.rs).                                                 *)

\* ai::next_move has been called: search holds the call and its outcome.
Searched == search.op = "next_move"

\* C12: next_move(board, depth) leaves the board it is given unchanged: both
\* bitboards, heights, move counter and history are the same after the call
\* as before it, for every board and depth, pruned searches included.
C12_NextMoveLeavesBoard ==
    Searched =>
        /\ board.player_one_bitboard = search.before.player_one_bitboard
        /\ board.player_two_bitboard = search.before.player_two_bitboard
        /\ board.heights = search.before.heights
        /\ board.move_count = search.before.move_count
        /\ board.history = search.before.history
        /\ board = search.before

\* A search of depth 3 on a board in progress that the cutoff ended at the
\* root before the last playable column was tried.
C12_Witness ==
    /\ Searched
    /\ search.depth = 3
    /\ status(search.before) = "OnGoing"
    /\ search.root.eval = I32_MIN
    /\ search.root.column \in 1..6
    /\ is_playable(search.before, 7)
    /\ board.history # <<>>

\* Some column of the board can be played.
HasPlayableColumn(b) == \E column \in 1..7 : PiecesIn(b, column) < 6

\* next_move returned Some(column).
ReturnedSome == search.column \in 1..7

\* C13 as stated: next_move returns None only if the board is not OnGoing or
\* no column is playable; on every ongoing board with a playable column it
\* returns Some(column), whatever the depth.
C13_SomeWhateverTheDepth ==
    (Searched /\ status(search.before) = "OnGoing"
              /\ HasPlayableColumn(search.before)) => ReturnedSome

\* C13, amended: next_move returns Some(column) exactly when the board is
\* OnGoing, a column is playable and depth >= 1; with depth 0 it returns None
\* on every board, as it does on every concluded board.
C13_SomeIffOngoingAndDepthPositive ==
    Searched =>
        /\ ~search.root.panicked
        /\ ReturnedSome <=>
              /\ status(search.before) = "OnGoing"
              /\ HasPlayableColumn(search.before)
              /\ search.depth >= 1
        /\ ~ReturnedSome => search.column = NoColumn

\* next_move with depth 0 has returned None on a board in progress whose
\* seven columns are all playable.
C13_Witness ==
    /\ Searched
    /\ search.depth = 0
    /\ search.column = NoColumn
    /\ status(search.before) = "OnGoing"
    /\ \A column \in 1..7 : PiecesIn(search.before, column) < 6
    /\ search.before.move_count > 0

\* next_move with depth 1 has returned Some(column) on a board with a single
\* playable column.
C13_WitnessSome ==
    /\ Searched
    /\ search.depth = 1
    /\ ReturnedSome
    /\ \A column \in 1..7 :
           PiecesIn(search.before, column) < 6 <=> column = search.column

\* The boards one move away from b, by the column played.
Successors(b) ==
    { [column |-> column, board |-> try_move(b, column).board] :
        column \in { c \in 1..7 : PiecesIn(b, c) < 6 } }

SetMax(values) == CHOOSE v \in values : \A w \in values : w <= v

SetMin(values) == CHOOSE v \in values : \A w \in values : v <= w

\* The depth-limited minimax score of a board, every successor examined: the
\* evaluator's score at depth 0 or on a concluded board, otherwise the largest
\* (maximizing) or smallest (minimizing) score of the successors, the two
\* taking turns.
RECURSIVE FullScore(_, _, _)
FullScore(b, depth, maximizing) ==
    IF depth = 0 \/ status(b) # "OnGoing"
    THEN evalulate_board(b)
    ELSE LET scores == { FullScore(next.board, depth - 1, ~maximizing) :
                            next \in Successors(b) }
         IN  IF maximizing THEN SetMax(scores) ELSE SetMin(scores)

\* The score of playing a column: Player One maximizes, Player Two minimizes.
ColumnScore(b, column, depth) ==
    FullScore(try_move(b, column).board, depth - 1,
              current_player(b) # "One")

\* C14: for every ongoing board and depth >= 1, the column next_move returns
\* is one whose depth-limited minimax score is best for the player to move:
\* the maximum over the playable columns when Player One is to move, the
\* minimum when Player Two is.
C14_BestForPlayerToMove ==
    (Searched /\ status(search.before) = "OnGoing" /\ search.depth >= 1) =>
        /\ ReturnedSome
        /\ PiecesIn(search.before, search.column) < 6
        /\ ColumnScore(search.before, search.column, search.depth)
              = FullScore(search.before, search.depth,
                          current_player(search.before) = "One")

\* The same, on the boards where Player Two is to move only.
C14_BestForPlayerTwo ==
    current_player(search.before) = "Two" => C14_BestForPlayerToMove

\* The column the root loop of minimax settles on when it never breaks off:
\* the first column, in the order One..Seven, whose score is below that of
\* every column before it and below i32::MAX; the seed when there is none.
FullColumn(b, depth) ==
    IF depth = 0 \/ status(b) # "OnGoing"
    THEN NoColumn
    ELSE LET best == FullScore(b, depth, FALSE)
             attain == { next.column : next \in
                           { n \in Successors(b) :
                               FullScore(n.board, depth - 1, TRUE) = best } }
         IN  IF best = I32_MAX
             THEN SeedColumn
             ELSE CHOOSE c \in attain : \A d \in attain : c <= d

\* C15: for every ongoing board and every depth, the search with the
\* `beta <= alpha` cutoffs selects the same root column and reports the same
\* root score as the search that examines every successor, with the same
\* evaluator and column order (and the same draw, where the seed is returned).
C15_PruningKeepsColumnAndScore ==
    (Searched /\ status(search.before) = "OnGoing") =>
        /\ search.root.eval = FullScore(search.before, search.depth, FALSE)
        /\ search.root.column = FullColumn(search.before, search.depth)
        /\ search.column \in
              { DrawnColumn(FullColumn(search.before, search.depth),
                            search.before, pick) : pick \in Picks }

\* A search of depth 3 on a board in progress with every column playable has
\* settled on a column with a score that is neither extreme.
C15_Witness ==
    /\ Searched
    /\ search.depth = 3
    /\ status(search.before) = "OnGoing"
    /\ \A column \in 1..7 : PiecesIn(search.before, column) < 6
    /\ search.root.column \in 1..7
    /\ search.root.eval \notin {I32_MIN, I32_MAX}
    /\ search.before.move_count >= 5

\* A search in which no column scored below i32::MAX: the drawn column is
\* returned.
C15_WitnessSeed ==
    /\ Searched
    /\ search.depth >= 2
    /\ search.root.column = SeedColumn
    /\ search.root.eval = I32_MAX
    /\ search.column \in 1..7

\* The columns whose play now gives the player to move four in a line: the
\* columns of the open completing cells of that player's threes.
CompletingColumns(b) ==
    { next.column : next \in
        { n \in Successors(b) :
            HasFourInLine(BitboardOf(n.board, current_player(b))) } }

\* C16: on an ongoing board where the player to move has three in a row with
\* one open completing cell playable now, next_move with depth >= 1 returns
\* the column of that cell.
C16_ReturnsCompletingColumn ==
    (Searched /\ status(search.before) = "OnGoing" /\ search.depth >= 1) =>
        \A column \in 1..7 :
            CompletingColumns(search.before) = {column} =>
                search.column = column

\* C16 on the boards where Player Two, the side the search minimizes for, is
\* the player to move.
C16_PlayerTwoReturnsCompletingColumn ==
    current_player(search.before) = "Two" => C16_ReturnsCompletingColumn

\* C16 with the depth limited to 1 or 2, for Player Two.
C16_PlayerTwoShallow ==
    search.depth <= 2 => C16_PlayerTwoReturnsCompletingColumn

\* The board with the two players' bitboards exchanged.
SwapPlayers(b) ==
    [b EXCEPT !.player_one_bitboard = b.player_two_bitboard,
              !.player_two_bitboard = b.player_one_bitboard]

\* C17: the evaluator is symmetric under swapping the players: the score of
\* the board with the two bitboards exchanged is the negation of the score of
\* the board, for positions in progress as well as wins and draws.
C17_EvaluatorNegatesUnderSwap ==
    LET score == evalulate_board(board)
        swapped == evalulate_board(SwapPlayers(board))
    IN  /\ score # I32_MIN
        /\ swapped = 0 - score

\* C17 on drawn boards, where both scores are 0.
C17_DrawScoresNegate ==
    status(board) = "Draw" => C17_EvaluatorNegatesUnderSwap

----------------------------------------------------------------------------
(* The app (src/app.rs).                                                   *)

\* C18: in single-player mode, when the search returns no move after the
\* human's move was applied (the human's move ended the game), the app skips
\* the opponent's turn, leaves the board as it is and keeps running; no
\* sequence of key presses makes the process abort.
C18_NoKeyPressAborts ==
    /\ ~app.panicked
    /\ (/\ last.op = "Enter"
        /\ app.current_page = "SinglePlayer"
        /\ status(board) # "OnGoing"
        /\ current_player(board) = "Two")
          => /\ app.running
             /\ board.move_count = last.before.move_count + 1

----------------------------------------------------------------------------
(* Order, playability and panics of the search.                            *)

\* The leftmost of the columns whose score is the best one at the root of
\* the search, which minimizes.
LeftmostBest(b, depth) ==
    LET best == FullScore(b, depth, FALSE)
        attain == { next.column : next \in
                      { n \in Successors(b) :
                          FullScore(n.board, depth - 1, TRUE) = best } }
    IN  CHOOSE c \in attain : \A d \in attain : c <= d

\* C21: next_move examines the playable columns in the order One..Seven and
\* breaks ties by that order: among the columns with equal best score it
\* returns the leftmost, so the column returned is determined by the board
\* and the depth and two calls return the same column.
C21_ReturnsLeftmostBest ==
    (Searched /\ ReturnedSome) =>
        search.column = LeftmostBest(search.before, search.depth)

\* C21 for the searches in which some column scored below i32::MAX.
C21_LeftmostUnlessDrawn ==
    search.root.column # SeedColumn => C21_ReturnsLeftmostBest

\* C22: whenever next_move returns Some(column), the column is playable on
\* the board and try_move(column) on it succeeds: the move the caller applies
\* for the automated player is never rejected.
C22_ReturnedColumnIsAccepted ==
    (Searched /\ ReturnedSome) =>
        /\ is_playable(board, search.column)
        /\ PiecesIn(board, search.column) < 6
        /\ status(board) = "OnGoing"
        /\ LET played == try_move(board, search.column)
           IN  /\ played.result.kind = "Ok"
               /\ played.board.move_count = board.move_count + 1
               /\ played.board.history = Append(board.history, search.column)

\* next_move has returned a column on a board with a full column next to it.
C22_Witness ==
    /\ Searched
    /\ ReturnedSome
    /\ search.depth >= 1
    /\ \E column \in 1..7 :
           /\ PiecesIn(board, column) = 6
           /\ search.column \in {column - 1, column + 1}

\* C23: every board whose status is OnGoing has at least one playable column,
\* so at every node where minimax passes the depth/terminal check the list
\* from possible_boards is non-empty and the unwrap() of the draw that seeds
\* best_column never panics.
C23_SeedNeverPanics ==
    /\ status(board) = "OnGoing" =>
          /\ \E column \in 1..7 : PiecesIn(board, column) < 6
          /\ possible_boards(board) # <<>>
    /\ Searched => ~search.root.panicked

\* A search of depth 3 from a board in progress with two empty cells left has
\* gone down to the full board and returned a column.
C23_Witness ==
    /\ Searched
    /\ search.depth = 3
    /\ search.before.move_count = 40
    /\ status(search.before) = "OnGoing"
    /\ ReturnedSome
    /\ ~search.root.panicked

\* C23 on the boards of the game itself, the full ones included.
C23_OngoingBoardHasPlayableColumn ==
    status(board) = "OnGoing" => \E column \in 1..7 : is_playable(board, column)

----------------------------------------------------------------------------
(* Shape of the bitboards and range of the heuristic.                      *)

\* The bit above the top cell of each column.
GuardBits == {6, 13, 20, 27, 34, 41, 48}

\* C24: in every state the occupied cells of each column are exactly its
\* lowest column_height cells (no piece floats above an empty cell) and no
\* guard bit (6, 13, 20, 27, 34, 41, 48) is set in either bitboard.
C24_ColumnsFilledFromBelow ==
    LET occupied == board.player_one_bitboard \cup board.player_two_bitboard
    IN  /\ \A column \in 1..7 :
              { bit \in occupied : bit \div 7 = column - 1 }
                  = { 7 * (column - 1) + row :
                        row \in 0..(column_height(board, column) - 1) }
        /\ board.player_one_bitboard \cap GuardBits = {}
        /\ board.player_two_bitboard \cap GuardBits = {}
        /\ occupied \subseteq 0..47

\* A try_move on a full column has just been refused, on a board with a
\* column filled partly and an empty one.
C24_Witness ==
    /\ last.op = "try_move"
    /\ last.result.kind = "FullColumn"
    /\ column_height(board, last.column) = 6
    /\ 7 * (last.column - 1) + 5
          \in board.player_one_bitboard \cup board.player_two_bitboard
    /\ \E column \in 1..7 : column_height(board, column) \in 1..5
    /\ \E column \in 1..7 : column_height(board, column) = 0

\* C25: for every board with status OnGoing the score of evalulate_board, the
\* low 32 bits of the combined occupancy read as a signed i32, is strictly
\* between i32::MIN and i32::MAX: a position in progress is never scored
\* like a win.
C25_OngoingScoreIsNotExtreme ==
    status(board) = "OnGoing" =>
        LET score == evalulate_board(board)
        IN  /\ score > I32_MIN
            /\ score < I32_MAX

\* A move has just put a piece on bit 31, on a board still in progress: the
\* score is negative.
C25_Witness ==
    /\ TryMoveOk
    /\ last.result.position = {31}
    /\ status(board) = "OnGoing"
    /\ evalulate_board(board) < 0
    /\ {28, 29, 30} \subseteq
          board.player_one_bitboard \cup board.player_two_bitboard

----------------------------------------------------------------------------
(* Turns in single-player mode (src/app.rs).                               *)

\* The loop of App::run is about to read the next key.
Waiting == app.running /\ ~app.panicked

\* The last key was Enter, pressed on the single-player page.
SinglePlayerEnter == last.op = "Enter" /\ app.current_page = "SinglePlayer"

\* Whenever the app waits for a key in single-player mode with the board
\* OnGoing, the move count is even and it is Player One's turn.
HumanToMove ==
    (Waiting /\ app.current_page = "SinglePlayer"
             /\ status(board) = "OnGoing") =>
        /\ board.move_count % 2 = 0
        /\ current_player(board) = "One"

\* The last Enter applied the human's move, on the column of the cursor, and
\* then one move of the search.
HumanThenSearchMoved ==
    /\ board.move_count = last.before.move_count + 2
    /\ \E column \in 1..7 :
           board.history = last.before.history \o <<last.column, column>>

\* The last Enter applied the human's move only.
HumanOnlyMoved ==
    /\ board.move_count = last.before.move_count + 1
    /\ board.history = Append(last.before.history, last.column)

C26_WitnessRejected ==
    /\ SinglePlayerEnter
    /\ Waiting
    /\ status(board) = "OnGoing"
    /\ board = last.before
    /\ ~is_playable(board, last.column)

\* An Enter has applied the human's winning move only.
C26_WitnessLastMove ==
    /\ SinglePlayerEnter
    /\ HumanOnlyMoved
    /\ status(board) = "WinnerOne"

====
